---- MODULE Spec2Model ----
(***************************************************************************)
(* Tuscan wrappers: compiler_wrapper.c and tool_wrapper.c.                 *)
(*                                                                         *)
(* Every invocation of a generated wrapper is a process that runs main()   *)
(* once: it records the native program name in a scratch file under /tmp   *)
(* and then replaces its image with the toolchain tool.  Invocations share *)
(* nothing but the /tmp name space, modelled by fs.  One step of the model *)
(* is one library call of main() that reads or changes /tmp or ends the    *)
(* process, taken together with the statements next to it that touch only  *)
(* the invocation's own memory (sprintf, fprintf into the stdio buffer,    *)
(* the filling of new_argv).  Every call that can fail has a failing       *)
(* outcome.  Where the two files have the same code (new_argv, execv) one  *)
(* action stands for both.                                                 *)
(***************************************************************************)
EXTENDS Integers, Sequences, FiniteSets, TLC

(* ------------------------------ bounds --------------------------------- *)

\* Number of wrapper invocations that run side by side.
NProcs == 2

\* Largest argc handed to main.
MaxArgc == 2

Procs == 1..NProcs

(* ------------------------ generation-time values ----------------------- *)

\* The wrapper instances: the template filled out for one native tool.
\* native_program is the text of "{{ native_program }}", one character per
\* element; toolchain_tool is "{{ toolchain_bin }}/{{ toolchain_program }}".
Instances ==
  << [kind |-> "compiler", native_program |-> <<"g", "c", "c">>,
      toolchain_tool |-> "/tc/bin/x-gcc"],
     [kind |-> "tool", native_program |-> <<"l", "d">>,
      toolchain_tool |-> "/tc/bin/x-ld"] >>

\* The ways to start the invocations, each a wrapper instance.  Invocations
\* differ in nothing but their instance, so one numbering of every choice
\* is enough.
Launches ==
  { [p \in Procs |-> Instances[k[p]]] :
      k \in { f \in [Procs -> 1..Len(Instances)] :
                \A p, q \in Procs : p <= q => f[p] <= f[q] } }

\* The text each wrapper prints into its scratch file: "{{ native_program }}\n".
Record(i) == i.native_program \o <<"\n">>

(* ------------------------------ inputs --------------------------------- *)

\* Strings a build system passes after argv[0].
ArgStrs == {"-v", "a b"}

\* The argument vectors main can be started with: argc in 1..MaxArgc,
\* argv[0] the name the wrapper was invoked by.
Argvs ==
  UNION { { <<"wrap">> \o t : t \in [1..(n - 1) -> ArgStrs] } : n \in 1..MaxArgc }

\* Values getrandom can leave in the first word of buf (32 bits, unsigned),
\* each as <<high half, low half>> of 16 bits: 100000, 2^32 - 100000 (the
\* int -100000, of the same absolute value) and 2^31 (the int INT_MIN).
RandomWords == {<<1, 34464>>, <<65534, 31072>>, <<32768, 0>>}

\* Suffixes mkstemp can put in place of XXXXXX (six characters out of
\* [a-zA-Z0-9]).
Suffixes == {"100000", "aB3xZ9"}

(* ---------------------------- conversions ------------------------------ *)

\* The least int: abs has no result for it.
INT_MIN == -2147483647 - 1

\* (int)(*buf): an unsigned 32-bit word <<high, low>> read as a signed one.
ToInt(u) ==
  IF u[1] >= 32768 THEN (u[1] - 65536) * 65536 + u[2] ELSE u[1] * 65536 + u[2]

\* abs(i), for every i that has an absolute value in int.
Abs(i) == IF i < 0 THEN -i ELSE i

\* What abs(i) can evaluate to.  abs(INT_MIN) overflows: where the negation
\* wraps it gives INT_MIN back; a build that traps on overflow gives nothing
\* (AbsTraps).
AbsResults(i) == IF i = INT_MIN THEN {INT_MIN} ELSE {Abs(i)}

\* The executions of abs(i) that can end in a trap.
AbsTraps(i) == i = INT_MIN

\* char f_name[32]
F_NAME_SIZE == 32

\* The characters of the format before %d.
NamePrefix == "/tmp/tuscan-native-"

\* The characters of a decimal number without sign.
Digits == {"0", "1", "2", "3", "4", "5", "6", "7", "8", "9"}

\* sprintf(f_name, "/tmp/tuscan-native-%d", n)
FormatName(n) == "/tmp/tuscan-native-" \o ToString(n)

\* The template of mkstemp with XXXXXX replaced by s.
TemplateName(s) == "/tmp/tuscan-native-" \o s

\* Every scratch name of the model.
Names ==
  { FormatName(n) : n \in UNION { AbsResults(ToInt(w)) : w \in RandomWords } }
    \cup { TemplateName(s) : s \in Suffixes }

\* The names both wrappers can come to use.
SharedNames ==
  { FormatName(n) : n \in UNION { AbsResults(ToInt(w)) : w \in RandomWords } }
    \cap { TemplateName(s) : s \in Suffixes }

\* A write of data at offset 0 of a file that holds old.
WriteAt0(old, data) ==
  IF Len(data) >= Len(old) THEN data
  ELSE data \o SubSeq(old, Len(data) + 1, Len(old))

\* new_argv as main fills it: element 0 the toolchain tool, the others argv's.
\* (Sequences count from 1: new_argv[i] of the code is NewArgv(..)[i + 1].)
NewArgv(tool, argv) ==
  [i \in 1..Len(argv) |-> IF i = 1 THEN tool ELSE argv[i]]

\* char *new_argv[argc]: the number of elements the array has.
NewArgvSize(argc) == argc

\* The elements of its vector execv reads: those it takes and the null word
\* that ends them.
WordsRead(passed) == Len(passed) + 1

\* What can lie behind new_argv[argc - 1] up to the first null word: main
\* stores no terminator, so execv reads on past the array.
StrayTails == {<<>>, <<"(stray)">>}

\* The exit status of main when control reaches its closing brace after
\* execv returned: 0 from C99 on, and otherwise whatever the call left
\* behind (execv's -1, seen as 255).
FallOffStatuses == {0, 255}

(* ------------------------------- state --------------------------------- *)

VARIABLES
  inst,            \* the wrapper instance each invocation runs
  pc,              \* the call of main each invocation is about to make
  f_name,          \* <<name>> once the scratch name is known
  handle,          \* fp / fd: "none", "open" or "closed"
  stdio,           \* what fprintf left in fp's buffer
  fs,              \* /tmp: name |-> contents, for the names that exist
  existed,         \* whether the scratch name existed when it was opened
  calls,           \* the library calls made so far, with how they returned
  stderr,          \* what perror wrote
  exit_status,     \* <<status>> once the process exited
  execv_call       \* <<[proc, path, argv, passed]>>: the call of execv
                   \* the step just taken made, <<>> when it made none

vars == <<inst, pc, f_name, handle, stdio, fs, existed, calls, stderr,
          exit_status, execv_call>>

\* What a file that some other party left in /tmp holds.
Foreign == <<"x", "y", "z", "\n", "\n">>

Init ==
  /\ inst \in Launches
  /\ pc = [p \in Procs |->
             IF inst[p].kind = "compiler" THEN "getrandom" ELSE "mkstemp"]
  /\ f_name = [p \in Procs |-> <<>>]
  /\ handle = [p \in Procs |-> "none"]
  /\ stdio = [p \in Procs |-> <<>>]
  /\ \E pre \in {{}, SharedNames} : fs = [n \in pre |-> Foreign]
  /\ existed = [p \in Procs |-> FALSE]
  /\ calls = [p \in Procs |-> <<>>]
  /\ stderr = [p \in Procs |-> <<>>]
  /\ exit_status = [p \in Procs |-> <<>>]
  /\ execv_call = <<>>

\* One call and how it returned.
Call(fn, ok) == [fn |-> fn, ok |-> ok]

\* The calls cs returned, in this order.
Returned(p, cs) == calls' = [calls EXCEPT ![p] = @ \o cs]

\* perror(msg); exit(status) or return status from main.
Die(p, msg, status) ==
  /\ stderr' = [stderr EXCEPT ![p] = Append(@, msg)]
  /\ exit_status' = [exit_status EXCEPT ![p] = <<status>>]
  /\ pc' = [pc EXCEPT ![p] = "exited"]

\* The process is ended by a signal.
Killed(p) ==
  /\ pc' = [pc EXCEPT ![p] = "killed"]
  /\ UNCHANGED <<stderr, exit_status>>

\* The step calls no execv.
NoExecv == execv_call' = <<>>

\* The process goes on to its next call.
Goto(p, next) ==
  /\ pc' = [pc EXCEPT ![p] = next]
  /\ UNCHANGED <<stderr, exit_status>>

(* -------------------------- compiler_wrapper.c ------------------------- *)

\* unsigned buf[RANDOM_PATH_LENGTH]; syscall(SYS_getrandom, buf, ..., 0);
\* sprintf(f_name, "/tmp/tuscan-native-%d", abs((int)(*buf))).  buf is read
\* by nothing after the sprintf.
GetRandom(p) ==
  /\ pc[p] = "getrandom"
  /\ \/ /\ Returned(p, <<Call("getrandom", FALSE)>>)
        /\ Die(p, "tuscan: compiler wrapper: getrandom", 1)
        /\ UNCHANGED f_name
     \/ \E w \in RandomWords :
          \/ \E n \in AbsResults(ToInt(w)) :
               /\ f_name' = [f_name EXCEPT ![p] = <<FormatName(n)>>]
               /\ Returned(p, <<Call("getrandom", TRUE), Call("sprintf", TRUE)>>)
               /\ Goto(p, "fopen")
          \/ /\ AbsTraps(ToInt(w))
             /\ Returned(p, <<Call("getrandom", TRUE), Call("abs", FALSE)>>)
             /\ Killed(p)
             /\ UNCHANGED f_name
  /\ NoExecv
  /\ UNCHANGED <<inst, handle, stdio, fs, existed>>

\* FOpen without the exit(1) of its error branch: after the diagnostic main
\* goes on to execv.
FOpenNoExit(p) ==
  /\ pc[p] = "fopen"
  /\ \/ /\ Returned(p, <<Call("fopen", FALSE)>>)
        /\ stderr' = [stderr EXCEPT
                        ![p] = Append(@, "tuscan: compiler wrapper: fopen")]
        /\ pc' = [pc EXCEPT ![p] = "execv"]
        /\ UNCHANGED <<handle, stdio, fs, existed, exit_status>>
     \/ LET name == f_name[p][1] IN
          /\ existed' = [existed EXCEPT ![p] = name \in DOMAIN fs]
          /\ fs' = [n \in DOMAIN fs \cup {name} |->
                      IF n = name THEN <<>> ELSE fs[n]]
          /\ handle' = [handle EXCEPT ![p] = "open"]
          /\ stdio' = [stdio EXCEPT ![p] = @ \o Record(inst[p])]
          /\ Returned(p, <<Call("fopen", TRUE), Call("fprintf", TRUE)>>)
          /\ Goto(p, "fclose")
  /\ NoExecv
  /\ UNCHANGED <<inst, f_name>>

\* FOpen with a retry in place of the error branch: when fopen fails main
\* draws another name and tries again, without a limit.
FOpenRetry(p) ==
  /\ pc[p] = "fopen"
  /\ \/ /\ pc' = [pc EXCEPT ![p] = "getrandom"]
        /\ calls' = [calls EXCEPT ![p] = <<>>]
        /\ UNCHANGED <<handle, stdio, fs, existed, stderr, exit_status>>
     \/ LET name == f_name[p][1] IN
          /\ existed' = [existed EXCEPT ![p] = name \in DOMAIN fs]
          /\ fs' = [n \in DOMAIN fs \cup {name} |->
                      IF n = name THEN <<>> ELSE fs[n]]
          /\ handle' = [handle EXCEPT ![p] = "open"]
          /\ stdio' = [stdio EXCEPT ![p] = @ \o Record(inst[p])]
          /\ Returned(p, <<Call("fopen", TRUE), Call("fprintf", TRUE)>>)
          /\ Goto(p, "fclose")
  /\ NoExecv
  /\ UNCHANGED <<inst, f_name>>

\* fp = fopen(f_name, "w"): the file is created, or emptied when it exists.
\* fprintf(fp, "{{ native_program }}\n"): the text stays in fp's buffer, and
\* the result is not looked at.
FOpen(p) ==
  /\ pc[p] = "fopen"
  /\ \/ /\ Returned(p, <<Call("fopen", FALSE)>>)
        /\ Die(p, "tuscan: compiler wrapper: fopen", 1)
        /\ UNCHANGED <<handle, stdio, fs, existed>>
     \/ LET name == f_name[p][1] IN
          /\ existed' = [existed EXCEPT ![p] = name \in DOMAIN fs]
          /\ fs' = [n \in DOMAIN fs \cup {name} |->
                      IF n = name THEN <<>> ELSE fs[n]]
          /\ handle' = [handle EXCEPT ![p] = "open"]
          /\ stdio' = [stdio EXCEPT ![p] = @ \o Record(inst[p])]
          /\ Returned(p, <<Call("fopen", TRUE), Call("fprintf", TRUE)>>)
          /\ Goto(p, "fclose")
  /\ NoExecv
  /\ UNCHANGED <<inst, f_name>>

\* FClose without the fclose: fp stays open and main goes on to execv.
FCloseLeak(p) ==
  /\ pc[p] = "fclose"
  /\ Returned(p, <<Call("fclose", TRUE)>>)
  /\ Goto(p, "execv")
  /\ NoExecv
  /\ UNCHANGED <<inst, f_name, handle, stdio, fs, existed>>

\* fclose(fp): the buffer is written out and the descriptor closed; EOF when
\* either fails.  The stream is released whether or not the call succeeds.
\* (A step of another invocation between the write and the close would see
\* what it sees after both.)
FClose(p) ==
  /\ pc[p] = "fclose"
  /\ handle' = [handle EXCEPT ![p] = "closed"]
  /\ stdio' = [stdio EXCEPT ![p] = <<>>]
  /\ \/ /\ fs' = [fs EXCEPT ![f_name[p][1]] = WriteAt0(@, stdio[p])]
        /\ Returned(p, <<Call("write", TRUE), Call("fclose", TRUE)>>)
        /\ Goto(p, "execv")
     \/ /\ fs' = [fs EXCEPT ![f_name[p][1]] = WriteAt0(@, stdio[p])]
        /\ Returned(p, <<Call("write", TRUE), Call("fclose", FALSE)>>)
        /\ Die(p, "tuscan: compiler wrapper: fclose", 1)
     \/ /\ UNCHANGED fs
        /\ Returned(p, <<Call("write", FALSE), Call("fclose", FALSE)>>)
        /\ Die(p, "tuscan: compiler wrapper: fclose", 1)
  /\ NoExecv
  /\ UNCHANGED <<inst, f_name, existed>>

(* ---------------------------- tool_wrapper.c --------------------------- *)

\* fd = mkstemp("/tmp/tuscan-native-XXXXXX").  The template is a string
\* literal: storing the suffix into it ends the process where literals are
\* read-only.  Where they are not, mkstemp creates a name that does not
\* exist (O_CREAT | O_EXCL), or fails: no name left to try, or no
\* permission.
Mkstemp(p) ==
  /\ pc[p] = "mkstemp"
  /\ \/ /\ Returned(p, <<Call("mkstemp", FALSE)>>)
        /\ Die(p, "tuscan: mkstemp", 1)
        /\ UNCHANGED <<f_name, handle, fs>>
     \/ /\ Killed(p)
        /\ UNCHANGED <<calls, f_name, handle, fs>>
     \/ \E s \in Suffixes :
          LET name == TemplateName(s) IN
            /\ name \notin DOMAIN fs
            /\ fs' = [n \in DOMAIN fs \cup {name} |->
                        IF n = name THEN <<>> ELSE fs[n]]
            /\ f_name' = [f_name EXCEPT ![p] = <<name>>]
            /\ handle' = [handle EXCEPT ![p] = "open"]
            /\ Returned(p, <<Call("mkstemp", TRUE)>>)
            /\ Goto(p, "dprintf")
  /\ NoExecv
  /\ UNCHANGED <<inst, stdio, existed>>

\* dprintf(fd, "{{ native_program }}\n"): written at once; the result is not
\* looked at.
Dprintf(p) ==
  /\ pc[p] = "dprintf"
  /\ \/ /\ fs' = [fs EXCEPT ![f_name[p][1]] = WriteAt0(@, Record(inst[p]))]
        /\ Returned(p, <<Call("dprintf", TRUE)>>)
     \/ /\ UNCHANGED fs
        /\ Returned(p, <<Call("dprintf", FALSE)>>)
  /\ Goto(p, "close")
  /\ NoExecv
  /\ UNCHANGED <<inst, f_name, handle, stdio, existed>>

\* close(fd): on Linux the descriptor is released also when close reports an
\* error.
Close(p) ==
  /\ pc[p] = "close"
  /\ handle' = [handle EXCEPT ![p] = "closed"]
  /\ \/ /\ Returned(p, <<Call("close", TRUE)>>)
        /\ Goto(p, "execv")
     \/ /\ Returned(p, <<Call("close", FALSE)>>)
        /\ Die(p, "tuscan: close", 1)
  /\ NoExecv
  /\ UNCHANGED <<inst, f_name, stdio, fs, existed>>

(* ------------------------------ both files ----------------------------- *)

\* new_argv is filled and execv(toolchain_tool, new_argv) called.  execv
\* takes the vector up to the first null word, which main never stores.
Execv(p) ==
  /\ pc[p] = "execv"
  /\ \E argv \in Argvs, tail \in StrayTails :
       LET tool == inst[p].toolchain_tool IN
         execv_call' = <<[proc |-> p, path |-> tool, argv |-> argv,
                          passed |-> NewArgv(tool, argv) \o tail]>>
  /\ pc' = [pc EXCEPT ![p] = "in execv"]
  /\ UNCHANGED <<inst, f_name, handle, stdio, fs, existed, calls, stderr,
                 exit_status>>

\* execv replaces the image, or returns: main then ends at its closing
\* brace, with no diagnostic and no status of its own.
ExecvDone(p) ==
  /\ pc[p] = "in execv"
  /\ \/ /\ Returned(p, <<Call("execv", TRUE)>>)
        /\ pc' = [pc EXCEPT ![p] = "replaced"]
        /\ UNCHANGED exit_status
     \/ /\ Returned(p, <<Call("execv", FALSE)>>)
        /\ pc' = [pc EXCEPT ![p] = "exited"]
        /\ \E st \in FallOffStatuses :
             exit_status' = [exit_status EXCEPT ![p] = <<st>>]
  /\ NoExecv
  /\ UNCHANGED <<inst, f_name, handle, stdio, fs, existed, stderr>>

Step(p) ==
  \/ GetRandom(p)
  \/ FOpen(p)
  \/ FClose(p)
  \/ Mkstemp(p)
  \/ Dprintf(p)
  \/ Close(p)
  \/ Execv(p)
  \/ ExecvDone(p)

Next == \E p \in Procs : Step(p)

Spec == Init /\ [][Next]_vars

\* Every invocation is a process of its own, and the scheduler of the system
\* lets every process that can run take its next step.
Fairness == \A p \in Procs : WF_vars(Step(p))

\* The start in which opens collide and mkstemp runs out of names soonest:
\* the name both wrappers can come to use is taken already.
CrowdedInit == Init /\ DOMAIN fs = SharedNames

FairSpec == CrowdedInit /\ [][Next]_vars /\ Fairness

(* ------------------------------ vocabulary ----------------------------- *)

\* Invocation p made the call fn and it returned ok.
Did(p, fn, ok) == \E i \in DOMAIN calls[p] : calls[p][i] = Call(fn, ok)

\* Invocation p has called execv.
Attempted(p) ==
  pc[p] = "in execv" \/ Did(p, "execv", TRUE) \/ Did(p, "execv", FALSE)

\* Invocation p is over: exited, ended by a signal, or its image replaced.
Terminal(p) == pc[p] \in {"exited", "killed", "replaced"}

\* The calls that allocate the scratch name and file.
AllocCalls == {"getrandom", "fopen", "mkstemp"}

\* The calls that put the record into the file and release it.
RecordCalls == {"write", "dprintf", "fclose", "close"}

\* A call out of fns failed in invocation p.
Failed(p, fns) == \E fn \in fns : Did(p, fn, FALSE)

(* -------------------------------- claims ------------------------------- *)

\* C1: two invocations that hold their scratch files open at the same time
\* hold files of different names.
C1_NamesNeverCollide ==
  \A p, q \in Procs :
    p # q /\ handle[p] = "open" /\ handle[q] = "open" => f_name[p] # f_name[q]

\* C2: an invocation whose own code ends the process (execv returned, or an
\* error exit) ends it with a status other than 0.
C2_NeverExitsZero ==
  \A p \in Procs : pc[p] = "exited" => exit_status[p] # <<0>>

\* C3: when execv is called, the scratch file of the invocation exists, the
\* record has been written into it, and its handle has been closed with
\* success.
C3_RecordBeforeExecv ==
  \A p \in Procs :
    Attempted(p) =>
      /\ f_name[p] # <<>>
      /\ f_name[p][1] \in DOMAIN fs
      /\ Did(p, "write", TRUE) \/ Did(p, "dprintf", TRUE)
      /\ handle[p] = "closed"
      /\ Did(p, "fclose", TRUE) \/ Did(p, "close", TRUE)

\* C4: the vector execv takes has as many elements as argv, the toolchain
\* tool first and then argv[1..n-1] in order.
C4_ForwardedVector ==
  execv_call # <<>> =>
    LET c == execv_call[1] IN
      /\ Len(c.passed) = Len(c.argv)
      /\ c.path = inst[c.proc].toolchain_tool
      /\ c.passed[1] = c.path
      /\ \A i \in 2..Len(c.argv) : c.passed[i] = c.argv[i]

\* C5: an invocation in which getrandom, fopen or mkstemp failed has exited
\* with status 1 and has not called execv.
C5_AllocFailureExits1 ==
  \A p \in Procs :
    Failed(p, AllocCalls) =>
      pc[p] = "exited" /\ exit_status[p] = <<1>> /\ ~Attempted(p)

\* C5 witness: a compiler wrapper whose fopen failed and a tool wrapper whose
\* mkstemp failed, both over.
C5_Witness ==
  \E p, q \in Procs :
    /\ Did(p, "fopen", FALSE) /\ Terminal(p)
    /\ Did(q, "mkstemp", FALSE) /\ Terminal(q)

\* C6: an invocation in which the write or the close of the record failed
\* never comes to call execv, and exits with a status other than 0.
C6_WriteFailureStopsExecv ==
  \A p \in Procs :
    Failed(p, RecordCalls) =>
      /\ pc[p] \notin {"execv", "in execv", "replaced"}
      /\ ~Attempted(p)
      /\ pc[p] = "exited" => exit_status[p] # <<0>>

\* C7: the file an invocation opened did not exist before, and invocations
\* that completed their records left them under different names.
C7_AlwaysNewlyCreated ==
  /\ \A p \in Procs : handle[p] # "none" => ~existed[p]
  /\ \A p, q \in Procs :
       p # q /\ Attempted(p) /\ Attempted(q) => f_name[p] # f_name[q]

\* C8: at the call of execv the scratch file of the invocation holds the
\* native program name, a newline and nothing else.
C8_RecordContent ==
  execv_call # <<>> =>
    LET p == execv_call[1].proc IN
      /\ f_name[p][1] \in DOMAIN fs
      /\ fs[f_name[p][1]] = Record(inst[p])

\* C9: an invocation that is over and in which an allocation, the write, the
\* close or execv failed has written a diagnostic to standard error.
C9_FailureDiagnosed ==
  \A p \in Procs :
    Terminal(p) /\ Failed(p, AllocCalls \cup RecordCalls \cup {"execv"}) =>
      stderr[p] # <<>>

\* C10: an invocation that is about to call execv, is in execv, or is over
\* holds no open scratch handle.
C10_NoOpenHandleOnExit ==
  \A p \in Procs :
    pc[p] \in {"execv", "in execv"} \/ Terminal(p) => handle[p] # "open"

\* C10 witness: one invocation exited on a failed close of its record while
\* another, its record closed, is in execv.
C10_Witness ==
  \E p, q \in Procs :
    /\ pc[p] = "exited" /\ Failed(p, {"fclose", "close"}) /\ handle[p] = "closed"
    /\ pc[q] = "in execv" /\ handle[q] = "closed"

\* Invocation p made no call twice.
NoCallTwice(p) ==
  \A i, j \in DOMAIN calls[p] : calls[p][i].fn = calls[p][j].fn => i = j

\* C11: under fair scheduling the invocations all come to an end (image
\* replaced, exited, or ended by a signal); as long as one has not, it has a
\* step to take whatever the others do; and it makes no call a second time.
C11_EndsWithoutWaiting ==
  /\ <>(\A p \in Procs : Terminal(p))
  /\ [](\A p \in Procs : ~Terminal(p) => ENABLED Step(p))
  /\ [](\A p \in Procs : NoCallTwice(p))

\* C11 witness: every invocation is over, two of them after opening the same
\* scratch name, one with its image replaced and one exited.
C11_Witness ==
  /\ \A p \in Procs : Terminal(p)
  /\ \E p, q \in Procs :
       /\ p # q
       /\ f_name[p] # <<>>
       /\ f_name[p] = f_name[q]
       /\ pc[p] = "replaced"
       /\ pc[q] = "exited"

\* C12: the vector execv takes ends directly behind the last forwarded
\* element, and execv reads no element outside new_argv to find its end.
C12_TerminatedInBounds ==
  execv_call # <<>> =>
    LET c == execv_call[1] IN
      /\ c.passed = NewArgv(c.path, c.argv)
      /\ WordsRead(c.passed) <= NewArgvSize(Len(c.argv))

\* A name mkstemp can create is left.
FreeName == \E s \in Suffixes : TemplateName(s) \notin DOMAIN fs

\* C13: in tool_wrapper, when a free name exists and mkstemp does not return
\* -1, the allocation step completes: the suffix is stored, the file exists,
\* the descriptor is open and main goes on to dprintf.
C13_MkstempCompletes ==
  [][\A p \in Procs :
       /\ pc[p] = "mkstemp"
       /\ pc'[p] # "mkstemp"
       /\ FreeName
       /\ \A i \in DOMAIN calls'[p] : calls'[p][i] # Call("mkstemp", FALSE)
       => /\ pc'[p] = "dprintf"
          /\ handle'[p] = "open"
          /\ f_name'[p] # <<>>
          /\ f_name'[p][1] \in DOMAIN fs']_vars

\* C14: the name compiler_wrapper formats fits f_name with its terminating
\* NUL, and what follows the prefix is a decimal number without sign.
C14_NameFitsNonNegative ==
  \A p \in Procs :
    inst[p].kind = "compiler" /\ f_name[p] # <<>> =>
      LET name == f_name[p][1] IN
        /\ Len(name) + 1 <= F_NAME_SIZE
        /\ Len(name) > Len(NamePrefix)
        /\ \A i \in (Len(NamePrefix) + 1)..Len(name) :
             SubSeq(name, i, i) \in Digits

====
